---- MODULE Spec2Model ----
(***************************************************************************)
(* A model of VNDB.py: the VNDB connection (login handshake, command       *)
(* framing, response decoding, the time-bounded "get" cache) and the       *)
(* pagination loop of VNDBClient.get.                                      *)
(*                                                                         *)
(* Text is a sequence of atoms.  An atom is a string: SP is the space      *)
(* character, NL another whitespace character, EOT the byte 0x04, and any  *)
(* other atom is a run of characters holding neither whitespace nor 0x04.  *)
(***************************************************************************)
EXTENDS Integers, Sequences, FiniteSets, TLC

\* ------------------------------------------------------------------ bounds
MaxTicks == 2
MaxCalls == 2
MaxPage == 2
MaxPageItems == 2
MaxNum == 2
MaxStream == 4
MaxFrameCalls == 2
MaxEmptyReads == 2
MaxThreadCalls == 2
MaxLoopPage == 3
MaxOps == 2
MaxSearchTicks == 1
MaxSearchItems == 1
MaxSubPage == 1
MaxSubItems == 1

\* --------------------------------------------------------- program constants
cachetime == 720
DefaultResults == 25
protocol == 1

\* ------------------------------------------------------------- option type
\* Python's None and a present value
None == <<>>
Some(x) == <<x>>

\* ------------------------------------------------------------------- text
SP == " "
NL == "\n"
EOT == "\\x04"
WS == {SP, NL}

Range(s) == {s[i] : i \in 1..Len(s)}

\* bytes.replace(b'\x04', b'')
RemoveDelim(s) == SelectSeq(s, LAMBDA c : c # EOT)

RECURSIVE LStrip(_)
LStrip(s) == IF s # <<>> /\ Head(s) \in WS THEN LStrip(Tail(s)) ELSE s

RECURSIVE RStrip(_)
RStrip(s) ==
    IF s # <<>> /\ s[Len(s)] \in WS THEN RStrip(SubSeq(s, 1, Len(s) - 1)) ELSE s

\* bytes.strip()
Strip(s) == RStrip(LStrip(s))

\* str.split(' '): the pieces between single spaces, empty pieces kept
RECURSIVE Split(_)
Split(s) ==
    IF \A i \in 1..Len(s) : s[i] # SP
    THEN <<s>>
    ELSE LET k == CHOOSE i \in 1..Len(s) : s[i] = SP /\ \A j \in 1..(i - 1) : s[j] # SP
         IN  <<SubSeq(s, 1, k - 1)>> \o Split(SubSeq(s, k + 1, Len(s)))

\* ' '.join(pieces)
RECURSIVE Join(_)
Join(ps) ==
    IF ps = <<>> THEN <<>>
    ELSE IF Len(ps) = 1 THEN ps[1]
    ELSE ps[1] \o <<SP>> \o Join(Tail(ps))

\* str.find(prefix) == 0
StartsWith(s, prefix) ==
    Len(s) >= Len(prefix) /\ SubSeq(s, 1, Len(prefix)) = prefix

Min(a, b) == IF a < b THEN a ELSE b

\* s[:n] of Python, n any integer
PySlice(s, n) ==
    IF n >= 0
    THEN SubSeq(s, 1, IF n < Len(s) THEN n ELSE Len(s))
    ELSE SubSeq(s, 1, IF Len(s) + n > 0 THEN Len(s) + n ELSE 0)

\* ------------------------------------------------------------ server data
\* What the remote service can answer.  Items are objects with an id; the
\* items of page p are numbered so that items of different pages differ.
ItemId(p, i) == 10 * p + i

Item(p, i) == [id |-> ItemId(p, i)]

PageNumbers == 0..MaxPage

PageObj(p, n, m) == [items |-> [i \in 1..n |-> Item(p, i)], more |-> m, num |-> n]

Pages == {PageObj(p, n, m) : p \in PageNumbers, n \in 0..MaxPageItems, m \in BOOLEAN}

PagesOf(p) == {PageObj(p, n, m) : n \in 0..MaxPageItems, m \in BOOLEAN}

\* error payloads of the service: an id and a msg
ServerErrors == {[id |-> "throttled", msg |-> "m0"], [id |-> "filter", msg |-> "m1"]}

\* error payloads lacking the id, the msg or both (an empty object)
OddErrors == {[id |-> "throttled"], [id |-> "filter"], [msg |-> "m1"], <<>>}

\* error payload of a refused login
AuthErrors == {[id |-> "auth", msg |-> "m2"]}

\* the paging options a caller can pass: no page field, or a page field
OptionDicts == {[results |-> DefaultResults]} \cup
    {[results |-> DefaultResults, page |-> p] : p \in PageNumbers \cup {MaxPage + 1}}

\* what the service answers to the searches: entries are objects.  A vn
\* carries an id and a title, a release an id and its producers, a character
\* an id and a name.
PageOf(items, m) == [items |-> items, more |-> m, num |-> Len(items)]

VnItem(p, i) == [id |-> ItemId(p, i), title |-> "t"]

VnPages(p) ==
    {PageOf([i \in 1..n |-> VnItem(p, i)], m) : n \in 0..MaxSearchItems, m \in BOOLEAN}

VnIds == {0} \cup {ItemId(p, i) : p \in 1..MaxPage, i \in 1..MaxSearchItems}

ProducerNames == {"Anim", "Other"}

ReleaseItem(v, p, i, nm) ==
    [id |-> 1000 + 100 * v + 10 * p + i, producers |-> <<[name |-> nm]>>]

ReleasePages(v, p) ==
    {PageOf([i \in 1..n |-> ReleaseItem(v, p, i, nm)], m) :
        n \in 0..MaxSubItems, nm \in ProducerNames, m \in BOOLEAN}

CharacterItem(v, p, i) == [id |-> 5000 + 100 * v + 10 * p + i, name |-> "c"]

CharacterPages(v, p) ==
    {PageOf([i \in 1..n |-> CharacterItem(v, p, i)], m) :
        n \in 0..MaxSubItems, m \in BOOLEAN}

SearchPages ==
    UNION {VnPages(p) : p \in 1..MaxPage} \cup
    UNION {ReleasePages(v, p) \cup CharacterPages(v, p) : v \in VnIds, p \in 1..MaxSubPage}

JsonValues == Pages \cup ServerErrors \cup OddErrors \cup AuthErrors \cup OptionDicts
              \cup SearchPages

\* ------------------------------------------------------------------- JSON
\* json.dumps of a mapping: the text holds a space after every ':' and ','.
\* The atom ToString(v) stands for the characters that tell the value.
JsonDumps(v) == <<"{", SP, ToString(v), "}">>

JsonText == [v \in JsonValues |-> ToString(v)]

IsJson(text) ==
    LET t == SelectSeq(text, LAMBDA c : c \notin WS)
    IN  /\ Len(t) = 3
        /\ t[1] = "{"
        /\ t[3] = "}"
        /\ \E v \in JsonValues : JsonText[v] = t[2]

\* json.loads: whitespace between tokens is skipped
JsonLoads(text) ==
    LET t == SelectSeq(text, LAMBDA c : c \notin WS)
    IN  CHOOSE v \in JsonValues : JsonText[v] = t[2]

HasKey(d, k) == k \in DOMAIN d

\* ------------------------------------------------------------------ codec
ThrottledMsg == "Throttled, limit of 100 commands per 10 minutes"

Return(c, a) == [kind |-> "return", cmdname |-> c, args |-> a]
Raise(e, m) == [kind |-> "raise", exc |-> e, msg |-> m]

\* the throttled id not told from the other ids
GetResponse_NoThrottle(res) ==
    LET parts == Split(res)
        cmdname == parts[1]
        bound == Len(parts) > 1
        text == Join(Tail(parts))
        args == JsonLoads(text)
    IN  IF bound /\ ~IsJson(text) THEN Raise("JSONDecodeError", "")
        ELSE IF cmdname = <<"error">>
        THEN IF ~bound THEN Raise("UnboundLocalError", "")
             ELSE IF ~HasKey(args, "msg") THEN Raise("KeyError", "msg")
             ELSE Raise("vndbException", args.msg)
        ELSE IF ~bound THEN Raise("UnboundLocalError", "")
        ELSE Return(cmdname, args)

\* VNDB.getResponse applied to the text getRawResponse returned
GetResponse(res) ==
    LET parts == Split(res)
        cmdname == parts[1]
        bound == Len(parts) > 1
        text == Join(Tail(parts))
        args == JsonLoads(text)
    IN  IF bound /\ ~IsJson(text) THEN Raise("JSONDecodeError", "")
        ELSE IF cmdname = <<"error">>
        THEN IF ~bound THEN Raise("UnboundLocalError", "")
             ELSE IF ~HasKey(args, "id") THEN Raise("KeyError", "id")
             ELSE IF args.id = "throttled" THEN Raise("vndbException", ThrottledMsg)
             ELSE IF ~HasKey(args, "msg") THEN Raise("KeyError", "msg")
             ELSE Raise("vndbException", args.msg)
        ELSE IF ~bound THEN Raise("UnboundLocalError", "")
        ELSE Return(cmdname, args)

\* the end of VNDB.getRawResponse: what it returns for the bytes gathered
RawResult(whole) == Strip(RemoveDelim(whole))

HasDelim(whole) == EOT \in Range(whole)

\* the receive loop of VNDB.getRawResponse over the reads the socket hands out
RECURSIVE RecvLoop(_, _)
RecvLoop(whole, reads) ==
    IF reads = <<>> THEN whole
    ELSE IF HasDelim(whole \o Head(reads)) THEN whole \o Head(reads)
    ELSE RecvLoop(whole \o Head(reads), Tail(reads))

\* one response frame as the service writes it
Frame(status, payload) ==
    <<status>> \o (IF payload = None THEN <<>> ELSE <<SP>> \o JsonDumps(payload[1])) \o <<EOT>>

\* every way one frame reaches the client in one or two reads
AllReads(frame) == {<<frame>>} \cup
    {<<SubSeq(frame, 1, k), SubSeq(frame, k + 1, Len(frame))>> : k \in 1..(Len(frame) - 1)}

\* one frame arriving whole, or cut in two in its middle
Reads(frame) ==
    {<<frame>>,
     <<SubSeq(frame, 1, Len(frame) \div 2), SubSeq(frame, Len(frame) \div 2 + 1, Len(frame))>>}

\* ------------------------------------------------------------------ state
VARIABLES
    pc,            \* where the caller is: new, login_wait, authfail, idle, loop, await, done,
                   \* raised, broken
    now,           \* time.time()
    ticks,         \* how often the clock has advanced
    cache,         \* self.cache['get']
    outstanding,   \* frames sent and not yet answered
    nsent,         \* frames sent so far
    lastSent,      \* the command of the last frame sent
    loginReply,    \* what the service answered the login with, status "" before
    ncalls,        \* VNDBClient.get calls started
    call,          \* arguments of the VNDBClient.get in progress
    options_dict,  \* its local options_dict
    N,             \* its local N
    ret,           \* its local ret, the value returned at done
    more,          \* its local more
    pending,       \* the VNDB.get waiting for its response: lookup time and sizes, and
                   \* the error payload the service answered it with, None if none
    fetched,       \* the VNDB.get calls of this VNDBClient.get, in order
    err            \* the exception that ended construction or the call

clientVars == <<pc, now, ticks, cache, outstanding, nsent, lastSent, loginReply, ncalls, call,
                options_dict, N, ret, more, pending, fetched, err>>

\* getRawResponse on an arbitrary byte stream
VARIABLES
    fsent,         \* every byte the peer wrote on the socket
    fstream,       \* the bytes of fsent no recv has handed out yet
    fpc,           \* idle, or recv: inside the receive loop
    fwhole,        \* the local whole of the getRawResponse in progress
    fresults,      \* what the getRawResponse calls returned, in order
    fclosed,       \* the peer closes the connection once it has written fsent
    fempty         \* the reads of the getRawResponse in progress that brought no byte

frameVars == <<fsent, fstream, fpc, fwhole, fresults, fclosed, fempty>>

\* getResponse on one response frame
VARIABLES
    cin,           \* the response the service wrote
    cout           \* what getResponse made of it, None before

codecVars == <<cin, cout>>

\* the search operations of VNDBClient on one VNDB instance
VARIABLES
    spc,           \* idle, page: in the loop of VNDBClient.get, returned: that get has
                   \* returned to the operation, raised
    snow,          \* time.time()
    sticks,        \* how often the clock has advanced
    scache,        \* self.cache['get']; the item dicts live in its entries
    swire,         \* for every entry of scache, the payload the service wrote
    sop,           \* the operation in progress and where it is
    sget,          \* the VNDBClient.get in progress: its arguments and locals
    slog,          \* the VNDB.get calls of the operation, in order
    sout,          \* what the last operation returned, None before
    serr,          \* the exception that ended the last operation, None if none
    nops           \* operations started

searchVars == <<spc, snow, sticks, scache, swire, sop, sget, slog, sout, serr, nops>>

\* sendCommand, and getResponse on the frame it wrote
VARIABLES
    wcmd,          \* the command handed to sendCommand
    wargs,         \* its args: none, a str or a dict
    wframe,        \* the bytes sendCommand gave to sock.send, None before
    wout           \* what getResponse made of these bytes, None before

sendVars == <<wcmd, wargs, wframe, wout>>

\* two threads calling VNDB.get on one VNDB instance
VARIABLES
    uselock,       \* the callers wrap every VNDB.get in one lock of theirs
    lock,          \* the thread holding that lock, 0 when it is free
    tpc,           \* per thread: idle, scan, send, recv, store
    targs,         \* per thread: the args of its VNDB.get
    tres,          \* per thread: what its last VNDB.get returned, None before
    tcalls,        \* per thread: VNDB.get calls started
    ccache,        \* self.cache['get']
    csent,         \* the get commands on their way to the service, in order
    cstream        \* the response frames written by the service and not yet read

concVars == <<uselock, lock, tpc, targs, tres, tcalls, ccache, csent, cstream>>

\* the loop of VNDBClient.get by itself, every VNDB.get returning a page
VARIABLES
    lpc,           \* idle, loop, body: VNDB.get has returned llast, done
    lcall,         \* the num and ret_dict of the call
    ldict,         \* its options_dict
    lN,            \* its N
    lret,          \* its ret
    lmore,         \* its more
    llast,         \* the page the last VNDB.get returned, None before
    lstalled       \* some page came with more = true and no item

loopVars == <<lpc, lcall, ldict, lN, lret, lmore, llast, lstalled>>

vars == <<clientVars, frameVars, codecVars, searchVars, sendVars, concVars, loopVars>>

besidesClient == <<frameVars, codecVars, searchVars, sendVars, concVars, loopVars>>
besidesFrame == <<clientVars, codecVars, searchVars, sendVars, concVars, loopVars>>
besidesCodec == <<clientVars, frameVars, searchVars, sendVars, concVars, loopVars>>
besidesSearch == <<clientVars, frameVars, codecVars, sendVars, concVars, loopVars>>
besidesSend == <<clientVars, frameVars, codecVars, searchVars, concVars, loopVars>>
besidesConc == <<clientVars, frameVars, codecVars, searchVars, sendVars, loopVars>>
besidesLoop == <<clientVars, frameVars, codecVars, searchVars, sendVars, concVars>>

\* ------------------------------------------------------------- the inputs
Filters == {"(search~\"a\")"}
Nums == {None} \cup {Some(n) : n \in 0..MaxNum}
OptionInputs == {<<>>} \cup {JsonDumps(d) : d \in {[results |-> DefaultResults],
                                                  [results |-> DefaultResults, page |-> 2]}}
RetDictInputs == {None, Some(FALSE)}
Credentials == {<<None, None>>, <<Some("u"), Some("p")>>}

\* --------------------------------------------------------------- VNDB.get
\* '{0} {1} {2} {3}'.format(type, flags, filters, options)
Args(type, flags, filters, options) ==
    <<type, SP, flags, SP, filters, SP>> \o options

\* the comparison turned round
Fresh_Reversed(item, t) == t > item.time + cachetime

\* the comparison with the boundary let in
Fresh_Inclusive(item, t) == t <= item.time + cachetime

\* time.time() < item['time'] + self.cachetime
Fresh(item, t) == t < item.time + cachetime

\* the query text left out of the test
Matches_AnyQuery(item, args, t) == Fresh(item, t)

\* the test of the cache scan
Matches(item, args, t) == item.query = args /\ Fresh(item, t)

\* the cache never consulted
CacheLookup_Miss(c, args, t) == 0

\* the cache scan: the index of the first entry that passes the test, 0 if none
CacheLookup(c, args, t) ==
    IF \E i \in 1..Len(c) : Matches(c[i], args, t)
    THEN CHOOSE i \in 1..Len(c) :
            Matches(c[i], args, t) /\ \A j \in 1..(i - 1) : ~Matches(c[j], args, t)
    ELSE 0

\* self.cache['get'].append({'time': ..., 'query': ..., 'results': ...})
Store(c, t, args, res) == Append(c, [time |-> t, query |-> args, results |-> res])

\* -------------------------------------------------------- VNDBClient.get
\* json.loads(options) if options else {"results": 25}
OptionsDict(options) ==
    IF options = <<>> THEN [results |-> DefaultResults] ELSE JsonLoads(options)

\* options_dict.setdefault('page', 1)
SetDefaultPage(d) ==
    IF HasKey(d, "page") THEN d ELSE [results |-> d.results, page |-> 1]

\* the page counter stepped by two
NextPage_Skip(d) == [results |-> d.results, page |-> d.page + 2]

\* options_dict['page'] += 1
NextPage(d) == [results |-> d.results, page |-> d.page + 1]

\* ret_dict = self.ret_dict when ret_dict is None
RetDict(arg) == IF arg = None THEN TRUE ELSE arg[1]

\* N += d['num'] if ret_dict is False else len(d['items'])
Count(n, d, ret_dict) == n + (IF ret_dict = FALSE THEN d.num ELSE Len(d.items))

\* the new page put in front of the earlier ones
Accumulate_Front(r, d, ret_dict) == IF ret_dict THEN d.items \o r ELSE <<d>> \o r

\* ret.extend(d['items']) or ret.append(d)
Accumulate(r, d, ret_dict) == IF ret_dict THEN r \o d.items ELSE Append(r, d)

\* the limit left out of the loop condition
More_NoLimit(d, num, n) == d.more

\* more = d['more'], then more = False once N >= num
More(d, num, n) == IF num # None /\ n >= num[1] THEN FALSE ELSE d.more

\* the final slice left out
Truncate_Never(r, num) == r

\* ret = ret[:num] when num is not None
Truncate(r, num) == IF num = None THEN r ELSE PySlice(r, num[1])

\* the query text of the page about to be fetched
CurrentArgs == Args(call.type, call.flags, call.filters, JsonDumps(options_dict))

\* the rest of the loop body once VNDB.get has returned d; h records the call
Deliver(d, h) ==
    /\ options_dict' = NextPage(options_dict)
    /\ N' = Count(N, d, call.ret_dict)
    /\ ret' = Truncate(Accumulate(ret, d, call.ret_dict), call.num)
    /\ more' = More(d, call.num, Count(N, d, call.ret_dict))
    /\ fetched' = Append(fetched, h)
    /\ pc' = IF More(d, call.num, Count(N, d, call.ret_dict)) THEN "loop" ELSE "done"

\* ---------------------------------------------------------------- actions
NoCall == [filters |-> "", type |-> "", flags |-> "", num |-> None, ret_dict |-> TRUE,
           options |-> <<>>]

ClientInit ==
    /\ pc = "new"
    /\ now = 0
    /\ ticks = 0
    /\ cache = <<>>
    /\ outstanding = 0
    /\ nsent = 0
    /\ lastSent = [command |-> "", args |-> <<>>]
    /\ loginReply = [status |-> "", payload |-> None]
    /\ ncalls = 0
    /\ call = NoCall
    /\ options_dict = [results |-> DefaultResults, page |-> 1]
    /\ N = 0
    /\ ret = <<>>
    /\ more = FALSE
    /\ pending = [at |-> 0, clen |-> 0, nsent |-> 0, reply |-> None]
    /\ fetched = <<>>
    /\ err = None

FrameIdle ==
    /\ fsent = <<>>
    /\ fstream = <<>>
    /\ fpc = "idle"
    /\ fwhole = <<>>
    /\ fresults = <<>>
    /\ fclosed = FALSE
    /\ fempty = 0

CodecIdle ==
    /\ cin = [status |-> "", payload |-> None, junk |-> FALSE, pad |-> FALSE]
    /\ cout = None

NoOp == [name |-> "", stage |-> "", releases |-> FALSE, characters |-> FALSE, k |-> 0,
         vns |-> <<>>, primary |-> <<>>, ret |-> <<>>]

NoGet == [type |-> "", flags |-> "", filters |-> "", num |-> None, subject |-> 0,
          options_dict |-> [results |-> DefaultResults, page |-> 1], N |-> 0,
          ret |-> <<>>, more |-> FALSE]

SearchIdle ==
    /\ spc = "idle"
    /\ snow = 0
    /\ sticks = 0
    /\ scache = <<>>
    /\ swire = <<>>
    /\ sop = NoOp
    /\ sget = NoGet
    /\ slog = <<>>
    /\ sout = None
    /\ serr = None
    /\ nops = 0

NoArgs == [kind |-> "none", text |-> <<>>, dict |-> None]

SendIdle ==
    /\ wcmd = ""
    /\ wargs = NoArgs
    /\ wframe = None
    /\ wout = None

Threads == {1, 2}

ConcIdle ==
    /\ uselock = FALSE
    /\ lock = 0
    /\ tpc = [t \in Threads |-> "idle"]
    /\ targs = [t \in Threads |-> <<>>]
    /\ tres = [t \in Threads |-> None]
    /\ tcalls = [t \in Threads |-> 0]
    /\ ccache = <<>>
    /\ csent = <<>>
    /\ cstream = <<>>

LoopIdle ==
    /\ lpc = "idle"
    /\ lcall = [num |-> None, ret_dict |-> TRUE]
    /\ ldict = [results |-> DefaultResults, page |-> 1]
    /\ lN = 0
    /\ lret = <<>>
    /\ lmore = FALSE
    /\ llast = None
    /\ lstalled = FALSE

Init ==
    ClientInit /\ FrameIdle /\ CodecIdle /\ SearchIdle /\ SendIdle /\ ConcIdle /\ LoopIdle

\* the clock advance between two looks at the clock: half the cache time, so
\* that an entry is still fresh one advance after its store and is exactly
\* cachetime old after two
TickStep == cachetime \div 2

\* time passes while the caller waits for a response or between two calls
Tick ==
    /\ ticks < MaxTicks
    /\ pc \in {"loop", "await", "done", "raised"}
    /\ now' = now + TickStep
    /\ ticks' = ticks + 1
    /\ UNCHANGED <<pc, cache, outstanding, nsent, lastSent, loginReply, ncalls, call,
                   options_dict, N, ret, more, pending, fetched, err>>
    /\ UNCHANGED besidesClient

\* VNDB.__init__ up to the login command
LoginArgs(username, password) ==
    IF username = None \/ password = None
    THEN [protocol |-> protocol, client |-> "c", clientver |-> "v"]
    ELSE [protocol |-> protocol, client |-> "c", clientver |-> "v",
          username |-> username[1], password |-> password[1]]

Construct ==
    /\ pc = "new"
    /\ \E cr \in Credentials :
          lastSent' = [command |-> "login", args |-> LoginArgs(cr[1], cr[2])]
    /\ outstanding' = outstanding + 1
    /\ nsent' = nsent + 1
    /\ pc' = "login_wait"
    /\ UNCHANGED <<now, ticks, cache, loginReply, ncalls, call, options_dict, N, ret,
                   more, pending, fetched, err>>
    /\ UNCHANGED besidesClient

\* what the service answers to a login
LoginReplies == {[status |-> "ok", payload |-> None]} \cup
                {[status |-> "error", payload |-> Some(e)] : e \in AuthErrors}

\* the status compared with the whole response instead of its start
LoginRefused_Whole(res) == res = <<"error">>

\* res.find('error ') == 0
LoginRefused(res) == StartsWith(res, <<"error", SP>>)

\* the constructor going on without reading the response to the login
LoginRecv_NoRead ==
    /\ pc = "login_wait"
    /\ pc' = "idle"
    /\ cache' = <<>>
    /\ UNCHANGED <<now, ticks, outstanding, nsent, lastSent, loginReply, ncalls, call,
                   options_dict, N, ret, more, pending, fetched, err>>
    /\ UNCHANGED besidesClient

\* VNDB.__init__ from getRawResponse on
LoginRecv ==
    /\ pc = "login_wait"
    /\ \E reply \in LoginReplies :
       \E reads \in Reads(Frame(reply.status, reply.payload)) :
          LET res == RawResult(RecvLoop(<<>>, reads))
          IN  /\ loginReply' = reply
              /\ IF LoginRefused(res)
                 THEN /\ err' = Some(Raise("vndbException",
                                            JsonLoads(Join(Tail(Split(res)))).msg))
                      /\ pc' = "authfail"
                      /\ cache' = cache
                 ELSE /\ err' = err
                      /\ pc' = "idle"
                      /\ cache' = <<>>
    /\ outstanding' = outstanding - 1
    /\ UNCHANGED <<now, ticks, nsent, lastSent, ncalls, call, options_dict, N, ret,
                   more, pending, fetched>>
    /\ UNCHANGED besidesClient

\* VNDBClient.get up to the loop
ClientGet ==
    /\ pc \in {"idle", "done", "raised"}
    /\ ncalls < MaxCalls
    /\ \E f \in Filters, num \in Nums, options \in OptionInputs, rd \in RetDictInputs :
          /\ call' = [filters |-> f, type |-> "vn", flags |-> "basic", num |-> num,
                      ret_dict |-> RetDict(rd), options |-> options]
          /\ options_dict' = SetDefaultPage(OptionsDict(options))
    /\ ncalls' = ncalls + 1
    /\ N' = 0
    /\ ret' = <<>>
    /\ more' = TRUE
    /\ fetched' = <<>>
    /\ err' = None
    /\ pc' = "loop"
    /\ UNCHANGED <<now, ticks, cache, outstanding, nsent, lastSent, loginReply, pending>>
    /\ UNCHANGED besidesClient

\* VNDB.get served from the cache, and the rest of the loop body
GetHit ==
    /\ pc = "loop"
    /\ options_dict.page <= MaxPage
    /\ CacheLookup(cache, CurrentArgs, now) # 0
    /\ UNCHANGED <<now, ticks, cache, outstanding, nsent, lastSent, loginReply, ncalls, call,
                   pending, err>>
    /\ LET i == CacheLookup(cache, CurrentArgs, now)
       IN  Deliver(cache[i].results,
                   [query |-> CurrentArgs, page |-> options_dict.page, d |-> cache[i].results,
                    srv |-> cache[i].results, hit |-> TRUE, at |-> now, at1 |-> now', clen |-> Len(cache), entry |-> i,
                    nsent0 |-> nsent, nsent1 |-> nsent', clen1 |-> Len(cache')])
    /\ UNCHANGED besidesClient

\* VNDB.get on a miss: the get command goes out
GetMiss ==
    /\ pc = "loop"
    /\ options_dict.page <= MaxPage
    /\ CacheLookup(cache, CurrentArgs, now) = 0
    /\ lastSent' = [command |-> "get", args |-> CurrentArgs]
    /\ outstanding' = outstanding + 1
    /\ nsent' = nsent + 1
    /\ pending' = [at |-> now, clen |-> Len(cache), nsent |-> nsent, reply |-> None]
    /\ pc' = "await"
    /\ UNCHANGED <<now, ticks, cache, loginReply, ncalls, call, options_dict, N, ret,
                   more, fetched, err>>
    /\ UNCHANGED besidesClient

\* what the service answers to a get of page p
GetReplies(p) == {[status |-> "results", payload |-> Some(d)] : d \in PagesOf(p)} \cup
                 {[status |-> "error", payload |-> Some(e)] : e \in ServerErrors}

\* the error of the response swallowed: the loop ends with what it gathered
GetRecv_Swallow ==
    /\ pc = "await"
    /\ UNCHANGED <<now, ticks, nsent, lastSent, loginReply, ncalls, call>>
    /\ \/ /\ outstanding' = outstanding - 1
          /\ \E reply \in GetReplies(options_dict.page) :
             \E reads \in Reads(Frame(reply.status, reply.payload)) :
                LET resp == GetResponse(RawResult(RecvLoop(<<>>, reads)))
                IN  IF resp.kind = "raise"
                    THEN /\ err' = Some(resp)
                         /\ pc' = "done"
                         /\ pending' = [pending EXCEPT !.reply = reply.payload]
                         /\ UNCHANGED <<cache, options_dict, N, ret, more, fetched>>
                    ELSE /\ cache' = Store(cache, now, CurrentArgs, resp.args)
                         /\ Deliver(resp.args,
                                    [query |-> CurrentArgs, page |-> options_dict.page,
                                     d |-> resp.args, srv |-> reply.payload[1], hit |-> FALSE,
                                     at |-> pending.at, at1 |-> now',
                                     clen |-> pending.clen, entry |-> Len(cache) + 1,
                                     nsent0 |-> pending.nsent, nsent1 |-> nsent',
                                     clen1 |-> Len(cache')])
                         /\ err' = err
                         /\ pending' = pending
       \/ /\ err' = Some(Raise("OSError", ""))
          /\ pc' = "done"
          /\ UNCHANGED <<cache, outstanding, options_dict, N, ret, more, pending, fetched>>
    /\ UNCHANGED besidesClient

\* VNDB.get on a miss: the response, the store, and the rest of the loop body.
\* Either a response frame arrives, or sock.recv raises (the connection was
\* reset): then no response is read and the exception leaves VNDBClient.get.
GetRecv ==
    /\ pc = "await"
    /\ UNCHANGED <<now, ticks, nsent, lastSent, loginReply, ncalls, call>>
    /\ \/ /\ outstanding' = outstanding - 1
          /\ \E reply \in GetReplies(options_dict.page) :
             \E reads \in Reads(Frame(reply.status, reply.payload)) :
                LET resp == GetResponse(RawResult(RecvLoop(<<>>, reads)))
                IN  IF resp.kind = "raise"
                    THEN /\ err' = Some(resp)
                         /\ pc' = "raised"
                         /\ pending' = [pending EXCEPT !.reply = reply.payload]
                         /\ UNCHANGED <<cache, options_dict, N, ret, more, fetched>>
                    ELSE /\ cache' = Store(cache, now, CurrentArgs, resp.args)
                         /\ Deliver(resp.args,
                                    [query |-> CurrentArgs, page |-> options_dict.page,
                                     d |-> resp.args, srv |-> reply.payload[1], hit |-> FALSE,
                                     at |-> pending.at, at1 |-> now',
                                     clen |-> pending.clen, entry |-> Len(cache) + 1,
                                     nsent0 |-> pending.nsent, nsent1 |-> nsent',
                                     clen1 |-> Len(cache')])
                         /\ err' = err
                         /\ pending' = pending
       \/ /\ err' = Some(Raise("OSError", ""))
          /\ pc' = "broken"
          /\ UNCHANGED <<cache, outstanding, options_dict, N, ret, more, pending, fetched>>
    /\ UNCHANGED besidesClient

Next ==
    \/ Tick
    \/ Construct
    \/ LoginRecv
    \/ ClientGet
    \/ GetHit
    \/ GetMiss
    \/ GetRecv

Spec == Init /\ [][Next]_vars

\* ------------------------------------------ getRawResponse, byte by byte
\* The peer may write any bytes; recv hands out any non-empty prefix of what
\* has not been read yet.
Bytes == {"a", "b", SP, EOT}

RECURSIVE SeqsUpTo(_, _)
SeqsUpTo(S, n) ==
    IF n = 0 THEN {<<>>}
    ELSE SeqsUpTo(S, n - 1) \cup
         {Append(q, x) : q \in {r \in SeqsUpTo(S, n - 1) : Len(r) = n - 1}, x \in S}

FrameInit ==
    /\ fsent \in SeqsUpTo(Bytes, MaxStream)
    /\ fstream = fsent
    /\ fpc = "idle"
    /\ fwhole = <<>>
    /\ fresults = <<>>
    /\ fclosed \in BOOLEAN
    /\ fempty = 0
    /\ ClientInit
    /\ CodecIdle
    /\ SearchIdle
    /\ SendIdle
    /\ ConcIdle
    /\ LoopIdle

\* getRawResponse is entered: finished = False, whole = b''
FrameCall ==
    /\ fpc = "idle"
    /\ Len(fresults) < MaxFrameCalls
    /\ fpc' = "recv"
    /\ fwhole' = <<>>
    /\ fempty' = 0
    /\ UNCHANGED <<fsent, fstream, fresults, fclosed, besidesFrame>>

\* one turn of the loop: whole += recv(4096), and the return once the
\* delimiter is in whole
FrameRecv ==
    /\ fpc = "recv"
    /\ \E k \in 1..Len(fstream) :
          /\ fwhole' = fwhole \o SubSeq(fstream, 1, k)
          /\ fstream' = SubSeq(fstream, k + 1, Len(fstream))
          /\ IF HasDelim(fwhole \o SubSeq(fstream, 1, k))
             THEN /\ fresults' = Append(fresults, RawResult(fwhole \o SubSeq(fstream, 1, k)))
                  /\ fpc' = "idle"
             ELSE /\ fresults' = fresults
                  /\ fpc' = "recv"
    /\ UNCHANGED <<fsent, fclosed, fempty, besidesFrame>>

\* one turn of the loop on a connection the peer has closed: recv returns b'',
\* whole stays as it is and holds no delimiter, finished stays False
FrameRecvEmpty ==
    /\ fpc = "recv"
    /\ fclosed
    /\ fstream = <<>>
    /\ fempty < MaxEmptyReads
    /\ fwhole' = fwhole \o <<>>
    /\ fempty' = fempty + 1
    /\ fpc' = IF HasDelim(fwhole \o <<>>) THEN "idle" ELSE "recv"
    /\ UNCHANGED <<fsent, fstream, fresults, fclosed, besidesFrame>>

\* sock.recv raises: the exception leaves getRawResponse
FrameRecvRaise ==
    /\ fpc = "recv"
    /\ fpc' = "raised"
    /\ UNCHANGED <<fsent, fstream, fwhole, fresults, fclosed, fempty, besidesFrame>>

FrameNext == FrameCall \/ FrameRecv \/ FrameRecvEmpty \/ FrameRecvRaise

SpecFrame == FrameInit /\ [][FrameNext]_vars

\* ----------------------------------------- getResponse, frame by frame
\* A response of the service: a status, then nothing, a JSON payload or text
\* that is no JSON, then possibly a newline, then the delimiter.
CodecStatuses == {"ok", "results", "error"}

CodecPayloads == ServerErrors \cup OddErrors \cup {PageObj(1, 1, FALSE)}

CodecInputs ==
    {[status |-> st, payload |-> pl, junk |-> j, pad |-> pd] :
        st \in CodecStatuses, pl \in {None} \cup {Some(v) : v \in CodecPayloads},
        j \in BOOLEAN, pd \in BOOLEAN}

CodecFrame(in) ==
    <<in.status>>
    \o (IF in.junk THEN <<SP, "x">>
        ELSE IF in.payload = None THEN <<>>
        ELSE <<SP>> \o JsonDumps(in.payload[1]))
    \o (IF in.pad THEN <<NL>> ELSE <<>>)
    \o <<EOT>>

CodecInit ==
    /\ cin \in {in \in CodecInputs : in.junk => in.payload = None}
    /\ cout = None
    /\ ClientInit
    /\ FrameIdle
    /\ SearchIdle
    /\ SendIdle
    /\ ConcIdle
    /\ LoopIdle

\* getResponse: getRawResponse, then the decoding
CodecRecv ==
    /\ cout = None
    /\ \E reads \in AllReads(CodecFrame(cin)) :
          cout' = Some(GetResponse(RawResult(RecvLoop(<<>>, reads))))
    /\ UNCHANGED <<cin, besidesCodec>>

CodecNext == CodecRecv

SpecCodec == CodecInit /\ [][CodecNext]_vars

\* ------------------------------------------- the searches of VNDBClient
\* Python hands out references: the dicts a get returns are the dicts held by
\* the cache entry of their page.  An entry of a returned list is therefore a
\* place in the cache, [e |-> entry, i |-> item], and a write to a returned
\* dict is a write to the cache.
Ref(e, i) == [e |-> e, i |-> i]

Deref(c, r) == c[r.e].results.items[r.i]

DerefAll(c, refs) == [j \in 1..Len(refs) |-> Deref(c, refs[j])]

\* the page of entry e as the loop of VNDBClient.get sees it
RefPage(c, e) ==
    [items |-> [i \in 1..Len(c[e].results.items) |-> Ref(e, i)],
     more |-> c[e].results.more, num |-> c[e].results.num]

\* d[key] = val
SetItem(d, key, val) == [x \in DOMAIN d \cup {key} |-> IF x = key THEN val ELSE d[x]]

\* PROD_DICT, in the order of its keys: the key and the producer names its
\* rules accept, among the names the service uses here
PROD_DICT ==
    <<[k |-> "Heiantei_", names |-> {"Heiantei"}],
      [k |-> "Lilith", names |-> {"Lilith", "Black Lilith"}],
      [k |-> "ANIM", names |-> {"Anim"}],
      [k |-> "Kaguya", names |-> {"Kaguya", "Kaguya Soft"}],
      [k |-> "ALICESOFT", names |-> {"Alice Soft"}]>>

\* prod_name if not _represent else _represent
Represent(prod_name) ==
    IF \E j \in 1..Len(PROD_DICT) : prod_name \in PROD_DICT[j].names
    THEN PROD_DICT[CHOOSE j \in 1..Len(PROD_DICT) :
                      /\ prod_name \in PROD_DICT[j].names
                      /\ \A h \in 1..(j - 1) : prod_name \notin PROD_DICT[h].names].k
    ELSE prod_name

\* the producers of one release relabelled
RelabelEntry(en) ==
    [en EXCEPT !.producers =
        [j \in 1..Len(en.producers) |->
            SetItem(en.producers[j], "represent", Represent(en.producers[j].name))]]

\* the loop of search_release over ens: every write lands in the cache
RECURSIVE Relabel(_, _)
Relabel(c, ens) ==
    IF ens = <<>> THEN c
    ELSE Relabel([c EXCEPT ![Head(ens).e].results.items[Head(ens).i] = RelabelEntry(@)],
                 Tail(ens))

\* vn[key] = val for the vn at r
Attach(c, r, key, val) == [c EXCEPT ![r.e].results.items[r.i] = SetItem(@, key, val)]

\* f'(vn="{pattern}")', f'(title~"{pattern}")', f'({method}"{pattern}")'
VnFilter(id) == "(vn=\"" \o ToString(id) \o "\")"
TitleFilter(pattern) == "(title~\"" \o pattern \o "\")"
SearchFilter(pattern) == "(search~\"" \o pattern \o "\")"

\* ','.join(flag_list)
RECURSIVE JoinComma(_)
JoinComma(fl) ==
    IF fl = <<>> THEN ""
    ELSE IF Len(fl) = 1 THEN fl[1]
    ELSE fl[1] \o "," \o JoinComma(Tail(fl))

\* flag_list.remove(x) when x is in it
Remove(fl, x) == SelectSeq(fl, LAMBDA f : f # x)

DefaultOptions == JsonDumps([results |-> DefaultResults])

\* VNDBClient.get up to its loop; subject is the vn id the filter names
NewGet(type, flags, filters, num, options, subject) ==
    [type |-> type, flags |-> flags, filters |-> filters, num |-> num, subject |-> subject,
     options_dict |-> SetDefaultPage(OptionsDict(options)), N |-> 0, ret |-> <<>>,
     more |-> TRUE]

SearchVnGet(pattern, flags, num) ==
    NewGet("vn", flags, SearchFilter(pattern), num, DefaultOptions, 0)

\* search_release with an id, flags and options at their defaults
ReleaseGet(id) == NewGet("release", "basic,producers", VnFilter(id), None, DefaultOptions, id)

\* search_characters with an id, flags and options at their defaults
CharacterGet(id) == NewGet("character", "basic", VnFilter(id), None, <<>>, id)

SearchArgs == Args(sget.type, sget.flags, sget.filters, JsonDumps(sget.options_dict))

\* what the service answers to the get of page p of a search; v is the vn id
\* a release or character filter names
SearchReplies(type, v, p) ==
    {[status |-> "results", payload |-> Some(d)] :
        d \in IF type = "vn" THEN VnPages(p)
              ELSE IF type = "release" THEN ReleasePages(v, p)
              ELSE CharacterPages(v, p)} \cup
    {[status |-> "error", payload |-> Some(e)] : e \in {[id |-> "throttled", msg |-> "m0"]}}

\* the pages the service is asked for here
PageBound(type) == IF type = "vn" THEN MaxPage ELSE MaxSubPage

\* time passes between two operations
SearchTick ==
    /\ spc \in {"idle", "raised"}
    /\ sticks < MaxSearchTicks
    /\ snow' = snow + cachetime
    /\ sticks' = sticks + 1
    /\ UNCHANGED <<spc, scache, swire, sop, sget, slog, sout, serr, nops>>
    /\ UNCHANGED besidesSearch

\* an operation is entered: op is where it stands, g its first VNDBClient.get
Begin(op, g) ==
    /\ spc \in {"idle", "raised"}
    /\ nops < MaxOps
    /\ nops' = nops + 1
    /\ sop' = op
    /\ sget' = g
    /\ slog' = <<>>
    /\ sout' = None
    /\ serr' = None
    /\ spc' = "page"
    /\ UNCHANGED <<snow, sticks, scache, swire>>
    /\ UNCHANGED besidesSearch

SearchNums == {None, Some(1)}

\* search_vn(pattern, num=num)
StartSearchVn ==
    \E num \in SearchNums :
       Begin([NoOp EXCEPT !.name = "search_vn", !.stage = "main"],
             SearchVnGet("a", "basic", num))

\* search_release(pattern) with an id or a title
StartSearchRelease ==
    \/ \E id \in VnIds \ {0} :
          Begin([NoOp EXCEPT !.name = "search_release", !.stage = "main"], ReleaseGet(id))
    \/ Begin([NoOp EXCEPT !.name = "search_release", !.stage = "main"],
             NewGet("release", "basic,producers", TitleFilter("a"), None, DefaultOptions, 0))

\* search_characters(pattern) with an id, or with a text that search_vn
\* resolves first
StartSearchCharacters ==
    \/ \E id \in VnIds \ {0} :
          Begin([NoOp EXCEPT !.name = "search_characters", !.stage = "main"],
                CharacterGet(id))
    \/ Begin([NoOp EXCEPT !.name = "search_characters", !.stage = "resolve"],
             SearchVnGet("a", "basic", Some(1)))

FullSearchFlags ==
    {<<"basic", "releases", "characters">>, <<"basic", "releases">>,
     <<"basic", "characters">>, <<"basic">>}

\* full_search(pattern, flags, num) up to the call of search_vn
StartFullSearch ==
    \E flag_list \in FullSearchFlags, num \in SearchNums :
       Begin([NoOp EXCEPT !.name = "full_search", !.stage = "primary",
                          !.releases = "releases" \in Range(flag_list),
                          !.characters = "characters" \in Range(flag_list)],
             SearchVnGet("a", JoinComma(Remove(Remove(flag_list, "releases"), "characters")),
                         num))

\* one turn of the loop of VNDBClient.get: VNDB.get (the cache scan, and on a
\* miss the round trip and the store), then the rest of the loop body
SearchGet ==
    /\ spc = "page"
    /\ sget.options_dict.page <= PageBound(sget.type)
    /\ LET hit == CacheLookup(scache, SearchArgs, snow)
           turn(c, e, h) ==
               LET d == RefPage(c, e)
                   n == Count(sget.N, d, TRUE)
                   m == More(d, sget.num, n)
               IN  /\ sget' = [sget EXCEPT !.options_dict = NextPage(@),
                                           !.N = n,
                                           !.ret = Truncate(Accumulate(@, d, TRUE), sget.num),
                                           !.more = m]
                   /\ slog' = Append(slog, [type |-> sget.type, filters |-> sget.filters,
                                            page |-> sget.options_dict.page, hit |-> h])
                   /\ spc' = IF m THEN "page" ELSE "returned"
                   /\ serr' = serr
       IN  IF hit # 0
           THEN /\ UNCHANGED <<scache, swire>>
                /\ turn(scache, hit, TRUE)
           ELSE \E reply \in SearchReplies(sget.type, sget.subject, sget.options_dict.page) :
                   LET resp == GetResponse(RawResult(RecvLoop(<<>>,
                                   <<Frame(reply.status, reply.payload)>>)))
                   IN  IF resp.kind = "raise"
                       THEN /\ serr' = Some(resp)
                            /\ spc' = "raised"
                            /\ UNCHANGED <<scache, swire, sget, slog>>
                       ELSE /\ scache' = Store(scache, snow, SearchArgs, resp.args)
                            /\ swire' = Append(swire, reply.payload[1])
                            /\ turn(Store(scache, snow, SearchArgs, resp.args),
                                    Len(scache) + 1, FALSE)
    /\ UNCHANGED <<snow, sticks, sop, sout, nops>>
    /\ UNCHANGED besidesSearch

\* the operation returns the dicts at refs
Finish(c, op, refs) ==
    /\ scache' = c
    /\ sop' = [op EXCEPT !.stage = "done"]
    /\ sout' = Some(DerefAll(c, refs))
    /\ spc' = "idle"
    /\ UNCHANGED <<snow, sticks, swire, sget, slog, serr, nops>>
    /\ UNCHANGED besidesSearch

\* the operation goes on into its next VNDBClient.get
Enter(c, op, g) ==
    /\ scache' = c
    /\ sop' = op
    /\ sget' = g
    /\ spc' = "page"
    /\ UNCHANGED <<snow, sticks, swire, slog, sout, serr, nops>>
    /\ UNCHANGED besidesSearch

\* the for loop of full_search from its k-th turn on, up to the next call of
\* VNDBClient.get or to the return
ForLoop(c, op) ==
    IF op.k > Len(op.vns) THEN Finish(c, op, op.ret)
    ELSE IF op.releases
    THEN Enter(c, [op EXCEPT !.stage = "releases"], ReleaseGet(Deref(c, op.vns[op.k]).id))
    ELSE IF op.characters
    THEN Enter(c, [op EXCEPT !.stage = "characters"], CharacterGet(Deref(c, op.vns[op.k]).id))
    ELSE Finish(c, op, op.ret \o SubSeq(op.vns, op.k, Len(op.vns)))

\* the entry put in front of the earlier ones
NextTurn_Front(op) == [op EXCEPT !.ret = <<op.vns[op.k]>> \o @, !.k = @ + 1]

\* ret.append(vn), and the next turn
NextTurn(op) == [op EXCEPT !.ret = Append(@, op.vns[op.k]), !.k = @ + 1]

\* search_vn returns what its get returned
SearchVnReturn ==
    /\ spc = "returned"
    /\ sop.name = "search_vn"
    /\ Finish(scache, sop, sget.ret)

\* search_release after its get: the producers are relabelled
SearchReleaseReturn ==
    /\ spc = "returned"
    /\ sop.name = "search_release"
    /\ Finish(Relabel(scache, sget.ret), sop, sget.ret)

\* search_characters after search_vn(pattern, num=1): [0]['id'], then its get
CharactersResolved ==
    /\ spc = "returned"
    /\ sop.name = "search_characters"
    /\ sop.stage = "resolve"
    /\ IF sget.ret = <<>>
       THEN /\ serr' = Some(Raise("IndexError", ""))
            /\ spc' = "raised"
            /\ UNCHANGED <<snow, sticks, scache, swire, sop, sget, slog, sout, nops>>
            /\ UNCHANGED besidesSearch
       ELSE Enter(scache, [sop EXCEPT !.stage = "main"],
                  CharacterGet(Deref(scache, sget.ret[1]).id))

\* search_characters returns what its get returned
SearchCharactersReturn ==
    /\ spc = "returned"
    /\ sop.name = "search_characters"
    /\ sop.stage = "main"
    /\ Finish(scache, sop, sget.ret)

\* full_search after search_vn: the for loop is entered
PrimaryReturn ==
    /\ spc = "returned"
    /\ sop.name = "full_search"
    /\ sop.stage = "primary"
    /\ ForLoop(scache, [sop EXCEPT !.vns = sget.ret, !.primary = DerefAll(scache, sget.ret),
                                   !.k = 1, !.ret = <<>>])

\* full_search after search_release: vn['releases'] = ..., then the characters
\* or the next turn
ReleasesReturn ==
    /\ spc = "returned"
    /\ sop.name = "full_search"
    /\ sop.stage = "releases"
    /\ LET c1 == Relabel(scache, sget.ret)
           c2 == Attach(c1, sop.vns[sop.k], "releases", DerefAll(c1, sget.ret))
       IN  IF sop.characters
           THEN Enter(c2, [sop EXCEPT !.stage = "characters"],
                      CharacterGet(Deref(c2, sop.vns[sop.k]).id))
           ELSE ForLoop(c2, NextTurn(sop))

\* full_search after search_characters: vn['characters'] = ..., then the next
\* turn
CharactersReturn ==
    /\ spc = "returned"
    /\ sop.name = "full_search"
    /\ sop.stage = "characters"
    /\ ForLoop(Attach(scache, sop.vns[sop.k], "characters", DerefAll(scache, sget.ret)),
               NextTurn(sop))

SearchInit ==
    SearchIdle /\ ClientInit /\ FrameIdle /\ CodecIdle /\ SendIdle /\ ConcIdle /\ LoopIdle

SearchNext ==
    \/ SearchTick
    \/ StartSearchVn
    \/ StartSearchRelease
    \/ StartSearchCharacters
    \/ StartFullSearch
    \/ SearchGet
    \/ SearchVnReturn
    \/ SearchReleaseReturn
    \/ CharactersResolved
    \/ SearchCharactersReturn
    \/ PrimaryReturn
    \/ ReleasesReturn
    \/ CharactersReturn

SpecSearch == SearchInit /\ [][SearchNext]_vars

\* ------------------------------- sendCommand, and its frame decoded again
Commands == {"get", "Login", "dbstats"}

\* str.lower on the command names used here
Lower(command) == IF command = "Login" THEN "login" ELSE command

StrArgs ==
    {<<>>, <<"x">>, <<"x", SP, "y">>,
     Args("vn", "basic", SearchFilter("a"), DefaultOptions),
     DefaultOptions}

DictArgs == OptionDicts \cup ServerErrors

SendInputs ==
    {NoArgs} \cup {[kind |-> "str", text |-> t, dict |-> None] : t \in StrArgs}
             \cup {[kind |-> "dict", text |-> <<>>, dict |-> Some(d)] : d \in DictArgs}

\* the bytes VNDB.sendCommand hands to sock.send
SendCommand(command, args) ==
    <<Lower(command)>>
    \o (IF args.kind = "str" THEN <<SP>> \o args.text
        ELSE IF args.kind = "dict" THEN <<SP>> \o JsonDumps(args.dict[1])
        ELSE <<>>)
    \o <<EOT>>

SendInit ==
    /\ wcmd \in Commands
    /\ wargs \in SendInputs
    /\ wframe = None
    /\ wout = None
    /\ ClientInit
    /\ FrameIdle
    /\ CodecIdle
    /\ SearchIdle
    /\ ConcIdle
    /\ LoopIdle

SendStep ==
    /\ wframe = None
    /\ wframe' = Some(SendCommand(wcmd, wargs))
    /\ UNCHANGED <<wcmd, wargs, wout, besidesSend>>

\* getResponse reading the bytes back
DecodeStep ==
    /\ wframe # None
    /\ wout = None
    /\ \E reads \in AllReads(wframe[1]) :
          wout' = Some(GetResponse(RawResult(RecvLoop(<<>>, reads))))
    /\ UNCHANGED <<wcmd, wargs, wframe, besidesSend>>

SendNext == SendStep \/ DecodeStep

SpecSend == SendInit /\ [][SendNext]_vars

\* ------------------------------------- two threads on one VNDB instance
\* The threads run VNDB.get step by step: the cache scan, sendCommand, the
\* receive, the append.  The service answers the commands in the order they
\* arrive, each with the page of its query; a receive takes the next frame of
\* the stream.  The clock stands still over the run.
ConcFilters == {SearchFilter("a"), SearchFilter("b")}

ConcQueries == {Args("vn", "basic", f, DefaultOptions) : f \in ConcFilters}

\* the page the service holds for a query
Answer(q) ==
    IF q = Args("vn", "basic", SearchFilter("a"), DefaultOptions)
    THEN PageObj(1, 1, FALSE) ELSE PageObj(2, 1, FALSE)

ConcInit ==
    /\ uselock \in BOOLEAN
    /\ lock = 0
    /\ tpc = [t \in Threads |-> "idle"]
    /\ targs = [t \in Threads |-> <<>>]
    /\ tres = [t \in Threads |-> None]
    /\ tcalls = [t \in Threads |-> 0]
    /\ ccache = <<>>
    /\ csent = <<>>
    /\ cstream = <<>>
    /\ ClientInit
    /\ FrameIdle
    /\ CodecIdle
    /\ SearchIdle
    /\ SendIdle
    /\ LoopIdle

\* the lock is left when the get is left, if the callers use one
Unlock(t) == lock' = IF uselock THEN 0 ELSE lock

\* a thread calls VNDB.get; callers that use the lock take it first
ConcCall(t) ==
    /\ tpc[t] = "idle"
    /\ tcalls[t] < MaxThreadCalls
    /\ uselock => lock = 0
    /\ lock' = IF uselock THEN t ELSE lock
    /\ \E q \in ConcQueries : targs' = [targs EXCEPT ![t] = q]
    /\ tcalls' = [tcalls EXCEPT ![t] = @ + 1]
    /\ tpc' = [tpc EXCEPT ![t] = "scan"]
    /\ UNCHANGED <<uselock, tres, ccache, csent, cstream, besidesConc>>

\* the cache scan of VNDB.get: return on a hit, go on to send on a miss
ConcScan(t) ==
    /\ tpc[t] = "scan"
    /\ LET i == CacheLookup(ccache, targs[t], 0)
       IN  IF i # 0
           THEN /\ tres' = [tres EXCEPT ![t] = Some(ccache[i].results)]
                /\ tpc' = [tpc EXCEPT ![t] = "idle"]
                /\ Unlock(t)
           ELSE /\ tpc' = [tpc EXCEPT ![t] = "send"]
                /\ UNCHANGED <<tres, lock>>
    /\ UNCHANGED <<uselock, targs, tcalls, ccache, csent, cstream, besidesConc>>

\* self.sendCommand('get', args)
ConcSend(t) ==
    /\ tpc[t] = "send"
    /\ csent' = Append(csent, targs[t])
    /\ tpc' = [tpc EXCEPT ![t] = "recv"]
    /\ UNCHANGED <<uselock, lock, targs, tres, tcalls, ccache, cstream, besidesConc>>

\* the service answers the oldest command
ConcServe ==
    /\ csent # <<>>
    /\ cstream' = Append(cstream, Frame("results", Some(Answer(Head(csent)))))
    /\ csent' = Tail(csent)
    /\ UNCHANGED <<uselock, lock, tpc, targs, tres, tcalls, ccache, besidesConc>>

\* res = self.getResponse()[1]: the next frame of the stream
ConcRecv(t) ==
    /\ tpc[t] = "recv"
    /\ cstream # <<>>
    /\ tres' = [tres EXCEPT ![t] =
                   Some(GetResponse(RawResult(RecvLoop(<<>>, <<Head(cstream)>>))).args)]
    /\ cstream' = Tail(cstream)
    /\ tpc' = [tpc EXCEPT ![t] = "store"]
    /\ UNCHANGED <<uselock, lock, targs, tcalls, ccache, csent, besidesConc>>

\* the append to the cache, and the return
ConcStore(t) ==
    /\ tpc[t] = "store"
    /\ ccache' = Store(ccache, 0, targs[t], tres[t][1])
    /\ tpc' = [tpc EXCEPT ![t] = "idle"]
    /\ Unlock(t)
    /\ UNCHANGED <<uselock, targs, tres, tcalls, csent, cstream, besidesConc>>

ConcNext ==
    \/ \E t \in Threads : ConcCall(t)
    \/ \E t \in Threads : ConcScan(t)
    \/ \E t \in Threads : ConcSend(t)
    \/ ConcServe
    \/ \E t \in Threads : ConcRecv(t)
    \/ \E t \in Threads : ConcStore(t)

SpecConc == ConcInit /\ [][ConcNext]_vars

\* ------------------------------------ the loop of VNDBClient.get, alone
\* Every VNDB.get of the call returns a page (from the cache or from a round
\* trip that succeeds); which page is up to the service.  The page counter is
\* kept at MaxLoopPage once it got there and the count N at MaxLoopCount: the
\* pages from there on are taken for one, and the counts past every limit for
\* one, so that a call that goes on for ever is a cycle.
MaxLoopCount == MaxNum + MaxPageItems

LoopNums == {Some(n) : n \in 0..MaxNum}

\* options_dict['page'] += 1, up to the page where the count is kept
LoopPage(d) == IF d.page >= MaxLoopPage THEN d ELSE NextPage(d)

\* VNDBClient.get up to its loop, with a limit
LoopStart ==
    /\ lpc = "idle"
    /\ \E num \in LoopNums, rd \in RetDictInputs :
          lcall' = [num |-> num, ret_dict |-> RetDict(rd)]
    /\ ldict' = SetDefaultPage(OptionsDict(DefaultOptions))
    /\ lN' = 0
    /\ lret' = <<>>
    /\ lmore' = TRUE
    /\ lpc' = "loop"
    /\ UNCHANGED <<llast, lstalled, besidesLoop>>

\* d = self._instance.get(type, flags, filters, options)
LoopGet ==
    /\ lpc = "loop"
    /\ \E d \in PagesOf(ldict.page) :
          /\ llast' = Some(d)
          /\ lstalled' = (lstalled \/ (d.more /\ d.items = <<>>))
    /\ lpc' = "body"
    /\ UNCHANGED <<lcall, ldict, lN, lret, lmore, besidesLoop>>

\* the rest of the loop body, and the test of the loop
LoopBody ==
    /\ lpc = "body"
    /\ ldict' = LoopPage(ldict)
    /\ lN' = Min(Count(lN, llast[1], lcall.ret_dict), MaxLoopCount)
    /\ lret' = Truncate(Accumulate(lret, llast[1], lcall.ret_dict), lcall.num)
    /\ lmore' = More(llast[1], lcall.num, Count(lN, llast[1], lcall.ret_dict))
    /\ lpc' = IF More(llast[1], lcall.num, Count(lN, llast[1], lcall.ret_dict))
              THEN "loop" ELSE "done"
    /\ UNCHANGED <<lcall, llast, lstalled, besidesLoop>>

LoopInit ==
    LoopIdle /\ ClientInit /\ FrameIdle /\ CodecIdle /\ SearchIdle /\ SendIdle /\ ConcIdle

LoopNext == LoopStart \/ LoopGet \/ LoopBody

\* the program runs on, and every round trip of the call succeeds: a step of
\* the loop that can be taken is taken
SpecLoop == LoopInit /\ [][LoopNext]_vars /\ WF_vars(LoopGet) /\ WF_vars(LoopBody)

\* ================================================================ claims
\* what the claims read off the record of the call in progress
Last == fetched[Len(fetched)]

RECURSIVE AllItems(_)
AllItems(hs) == IF hs = <<>> THEN <<>> ELSE Head(hs).srv.items \o AllItems(Tail(hs))

\* an entry the lookup of h could see, holding h's query and younger than cachetime
LiveFor(h, i) ==
    /\ i \in 1..h.clen
    /\ cache[i].query = h.query
    /\ h.at < cache[i].time + cachetime

\* the page the caller's options name, 1 when they name none
CallerPage ==
    IF call.options = <<>> THEN 1
    ELSE IF HasKey(JsonLoads(call.options), "page") THEN JsonLoads(call.options).page
    ELSE 1

Flat == call.ret_dict = TRUE

\* C1: a VNDB.get whose query text has an entry younger than cachetime in the
\* cache returns that entry's stored result, sends no frame and leaves the
\* cache as it was; a get command goes out only when no such entry exists.
C1_CacheHit ==
    /\ \A k \in 1..Len(fetched) : \A i \in 1..fetched[k].clen :
          LiveFor(fetched[k], i) =>
             /\ fetched[k].hit
             /\ fetched[k].d = cache[i].results
             /\ fetched[k].nsent1 = fetched[k].nsent0
             /\ fetched[k].clen1 = fetched[k].clen
    /\ pc = "await" =>
          \A i \in 1..pending.clen :
             ~(cache[i].query = CurrentArgs /\ pending.at < cache[i].time + cachetime)

\* a second get of a query, some time after the first stored its entry, was
\* served from that entry
C1_Witness ==
    \E k \in 1..Len(fetched) :
       /\ fetched[k].hit
       /\ fetched[k].at > cache[fetched[k].entry].time
       /\ fetched[k].nsent1 = fetched[k].nsent0

\* what C2 says of the results served from the cache
C2_Served ==
    \A k \in 1..Len(fetched) :
       fetched[k].hit =>
          /\ fetched[k].entry \in 1..fetched[k].clen
          /\ cache[fetched[k].entry].query = fetched[k].query
          /\ fetched[k].at < cache[fetched[k].entry].time + cachetime
          /\ fetched[k].d = cache[fetched[k].entry].results

\* what C2 says of a get that returned while no entry of its query was live
C2_Refetched ==
    \A k \in 1..Len(fetched) :
       (\A i \in 1..fetched[k].clen : ~LiveFor(fetched[k], i)) =>
          /\ ~fetched[k].hit
          /\ fetched[k].nsent1 = fetched[k].nsent0 + 1
          /\ fetched[k].clen1 = fetched[k].clen + 1
          /\ cache[fetched[k].clen1] =
                [time |-> fetched[k].at1, query |-> fetched[k].query,
                 results |-> fetched[k].srv]
          /\ fetched[k].d = fetched[k].srv

\* C2 as stated: results come from the cache only from entries younger than
\* cachetime, and every get that finds no such entry makes a round trip and
\* appends an entry, the get that ended in an error included.
C2_Original ==
    /\ C2_Served
    /\ C2_Refetched
    /\ pc = "raised" => nsent = pending.nsent + 1 /\ Len(cache) = pending.clen + 1

\* C2 (amended): results come from the cache only from entries younger than
\* cachetime (an entry exactly cachetime old is not used); a get that finds
\* no such entry makes a round trip, and when the round trip returns a result
\* it appends an entry with the current time; when it raises, nothing is added.
C2_CacheExpiry ==
    /\ C2_Served
    /\ C2_Refetched
    /\ pc = "raised" => nsent = pending.nsent + 1 /\ Len(cache) = pending.clen

\* a get found an entry of its query exactly cachetime old and fetched anew
C2_Witness ==
    \E k \in 1..Len(fetched) : \E i \in 1..fetched[k].clen :
       /\ cache[i].query = fetched[k].query
       /\ fetched[k].at = cache[i].time + cachetime
       /\ ~fetched[k].hit
       /\ cache[fetched[k].clen1].time = fetched[k].at1

\* C3: a flat call with no limit and no page in its options returns the items
\* of the pages 1..k in page order, k being the first page with more = false,
\* and asked for each of the pages 1..k once.
C3_Exhaustion ==
    (pc = "done" /\ call.num = None /\ Flat /\ CallerPage = 1) =>
       /\ Len(fetched) >= 1
       /\ \A j \in 1..Len(fetched) :
             /\ fetched[j].page = j
             /\ fetched[j].srv.more = (j < Len(fetched))
       /\ ret = AllItems(fetched)

\* two pages were needed and both were full
C3_Witness ==
    /\ pc = "done" /\ call.num = None /\ Flat /\ CallerPage = 1
    /\ Len(fetched) = 2
    /\ Len(ret) = 2 * MaxPageItems

\* C4 as stated: a flat call with limit num returns exactly num items, the
\* first num of the fetched pages.
C4_Original ==
    (pc = "done" /\ call.num # None /\ Flat) =>
       /\ Len(ret) = call.num[1]
       /\ \A i \in 1..Len(ret) : ret[i] = AllItems(fetched)[i]

\* C4 (amended): a flat call with limit num >= 0 returns the first num items
\* of the fetched pages when they hold at least num items, and all their
\* items when they hold fewer; never more than num, none dropped or reordered
\* before position num.
C4_Limit ==
    (pc = "done" /\ call.num # None /\ Flat) =>
       /\ Len(ret) = Min(call.num[1], Len(AllItems(fetched)))
       /\ \A i \in 1..Len(ret) : ret[i] = AllItems(fetched)[i]

\* the last page overshot the limit and the tail was trimmed
C4_Witness ==
    /\ pc = "done" /\ call.num # None /\ Flat
    /\ Len(AllItems(fetched)) > call.num[1]
    /\ call.num[1] > 0
    /\ Len(ret) = call.num[1]

\* C5 as stated: a page is asked for only while the count of the items so far
\* is below the limit, and only after a page with more = true.
C5_Original ==
    pc \in {"loop", "await"} =>
       /\ fetched # <<>> => Last.srv.more
       /\ call.num = None \/ Len(AllItems(fetched)) < call.num[1]

\* C5 (amended): the first page is asked for whatever the limit; every further
\* page only after a page with more = true and, when a limit is set, while the
\* count of the items so far is below it.
C5_StopCondition ==
    (pc \in {"loop", "await"} /\ fetched # <<>>) =>
       /\ Last.srv.more
       /\ call.num = None \/ Len(AllItems(fetched)) < call.num[1]

\* the call stopped at its limit although the last page said more = true
C5_Witness ==
    /\ pc = "done"
    /\ Len(fetched) = 2
    /\ Last.srv.more
    /\ call.num # None
    /\ Len(AllItems(fetched)) >= call.num[1]

\* C6 as stated: the pages of a call are 1, 2, 3, ... whatever its options.
C6_Original ==
    /\ \A j \in 1..Len(fetched) : fetched[j].page = j
    /\ pc \in {"loop", "await"} => options_dict.page = Len(fetched) + 1

\* C6 (amended): the pages of a call are p, p + 1, p + 2, ... with none
\* skipped or repeated, p being the page field of the caller's options and 1
\* when the options carry none.
C6_PageNumbering ==
    /\ \A j \in 1..Len(fetched) : fetched[j].page = CallerPage + j - 1
    /\ pc \in {"loop", "await"} => options_dict.page = CallerPage + Len(fetched)

\* a call whose options name page 2 fetched page 2 and turns to page 3
C6_Witness ==
    /\ call.options # <<>>
    /\ CallerPage = 2
    /\ Len(fetched) = 1
    /\ fetched[1].page = 2
    /\ pc = "loop"
    /\ options_dict.page = 3

\* C7: at most one frame is unanswered at any time, a frame is unanswered
\* exactly while the caller waits in the receive (or the connection broke in
\* that receive, after which nothing is sent), and every frame sent before has
\* been answered.
C7_SingleOutstanding ==
    /\ outstanding \in {0, 1}
    /\ outstanding = 1 <=> pc \in {"login_wait", "await", "broken"}
    /\ pc = "new" <=> nsent = 0

\* a call ended in an error after the login and two get commands, all answered
C7_Witness ==
    /\ pc = "raised"
    /\ nsent >= 3
    /\ outstanding = 0

\* the content of the k-th frame of a byte stream: the bytes between the
\* (k-1)-th and the k-th delimiter
RECURSIVE NthFrame(_, _)
NthFrame(bytes, k) ==
    IF ~HasDelim(bytes) THEN <<>>
    ELSE LET d == CHOOSE i \in 1..Len(bytes) :
                     bytes[i] = EOT /\ \A j \in 1..(i - 1) : bytes[j] # EOT
         IN  IF k = 1 THEN SubSeq(bytes, 1, d - 1)
             ELSE NthFrame(SubSeq(bytes, d + 1, Len(bytes)), k - 1)

\* C8: the k-th getRawResponse returns the content of the k-th frame of the
\* stream (surrounding whitespace stripped), however the stream is cut into
\* reads: bytes behind the delimiter stay for the next call.
C8_NoLeak ==
    \A k \in 1..Len(fresults) : fresults[k] = Strip(NthFrame(fsent, k))

\* C9: getResponse raises on every response of status error; with id
\* throttled the exception holds the fixed message, with any other id the
\* payload's msg.
C9_Throttle ==
    (cout # None /\ cin.status = "error") =>
       /\ cout[1].kind = "raise"
       /\ (cin.payload # None /\ ~cin.junk) =>
            /\ (HasKey(cin.payload[1], "id") /\ cin.payload[1].id = "throttled") =>
                  cout[1] = Raise("vndbException", ThrottledMsg)
            /\ (/\ HasKey(cin.payload[1], "id")
                /\ cin.payload[1].id # "throttled"
                /\ HasKey(cin.payload[1], "msg")) =>
                  cout[1] = Raise("vndbException", cin.payload[1].msg)

\* an error with another id than throttled was raised with its msg
C9_Witness ==
    /\ cout # None
    /\ cin.status = "error"
    /\ cin.payload = Some([id |-> "filter", msg |-> "m1"])
    /\ cout[1] = Raise("vndbException", "m1")

ExpectedError(reply) ==
    IF reply = None THEN Raise("OSError", "")
    ELSE IF reply[1].id = "throttled" THEN Raise("vndbException", ThrottledMsg)
    ELSE Raise("vndbException", reply[1].msg)

Failed == pc \in {"raised", "broken"}

\* C11: a round trip of a VNDBClient.get that ends in an error (no response,
\* throttled, another server error) ends the call with that error: nothing is
\* returned, the items gathered from earlier pages included, the cache is as
\* it was before the round trip, and no frame is sent until the caller starts
\* another call.  A round trip that ends without handing a page to the loop is
\* one that failed.
C11_NoPartial ==
    [][/\ (pc = "await" /\ pc' # "await" /\ Len(fetched') = Len(fetched)) =>
             /\ Failed'
             /\ err' = Some(ExpectedError(pending'.reply))
             /\ cache' = cache
             /\ nsent' = nsent
       /\ (Failed /\ ncalls' = ncalls) =>
             /\ pc' = pc
             /\ err' = err
             /\ cache' = cache
             /\ nsent' = nsent]_vars

\* the second page of a call was answered with an error after the first page
\* had brought items: the call raised and the entry of page 1 is all the cache
\* holds
C11_Witness ==
    /\ pc = "raised"
    /\ Len(fetched) = 1
    /\ Len(ret) > 0
    /\ pending.reply # None
    /\ err = Some(ExpectedError(pending.reply))
    /\ Len(cache) = 1

\* a call ended by a connection that broke in the receive
C11_TransportWitness ==
    /\ pc = "broken"
    /\ err = Some(Raise("OSError", ""))

\* the turn of full_search's loop a logged get belongs to: 0 for the pages of
\* the primary search, 2k - 1 for the release query of the k-th entry
\* returned, 2k for its character query
Phase(l) ==
    IF l.type = "vn" THEN 0
    ELSE LET k == CHOOSE k \in 1..Len(sout[1]) : l.filters = VnFilter(sout[1][k].id)
         IN  IF l.type = "release" THEN 2 * k - 1 ELSE 2 * k

FullSearchDone(fr, fc) ==
    /\ sop.name = "full_search"
    /\ sop.stage = "done"
    /\ sop.releases = fr
    /\ sop.characters = fc

\* C12: a full_search with both flags returns the entries of the primary
\* search in its order, each with a releases and a characters field and its
\* other fields as the primary search returned them; its gets are the pages of
\* the primary search, then entry by entry the release query followed by the
\* character query, the pages of each query in rising order.
C12_Composition ==
    FullSearchDone(TRUE, TRUE) =>
       /\ Len(sout[1]) = Len(sop.primary)
       /\ \A k \in 1..Len(sout[1]) :
             /\ DOMAIN sout[1][k] = DOMAIN sop.primary[k] \cup {"releases", "characters"}
             /\ \A x \in DOMAIN sop.primary[k] \ {"releases", "characters"} :
                   sout[1][k][x] = sop.primary[k][x]
       /\ \A l \in 1..Len(slog) :
             slog[l].type # "vn" =>
                \E k \in 1..Len(sout[1]) : slog[l].filters = VnFilter(sout[1][k].id)
       /\ \A l \in 1..(Len(slog) - 1) :
             /\ Phase(slog[l]) <= Phase(slog[l + 1])
             /\ Phase(slog[l]) = Phase(slog[l + 1]) => slog[l + 1].page = slog[l].page + 1
       /\ \A ph \in 0..(2 * Len(sout[1])) : \E l \in 1..Len(slog) : Phase(slog[l]) = ph

\* two entries came back from two pages, the second with a relabelled release
\* and a character
C12_Witness ==
    /\ FullSearchDone(TRUE, TRUE)
    /\ Len(sout[1]) = 2
    /\ Len(sout[1][2].releases) = 1
    /\ sout[1][2].releases[1].producers[1].represent = "ANIM"
    /\ Len(sout[1][2].characters) = 1
    /\ Len(slog) = 6

\* C13: the frame sendCommand writes is the command, the argument behind one
\* space when there is one, and one delimiter at its end and nowhere else;
\* getResponse makes of it the command (in lower case) and the argument: none
\* for none, the text for a str, the mapping for a dict.
C13_RoundTrip ==
    /\ wframe # None =>
          /\ wframe[1][Len(wframe[1])] = EOT
          /\ \A i \in 1..(Len(wframe[1]) - 1) : wframe[1][i] # EOT
    /\ wout # None =>
          /\ wout[1].kind = "return"
          /\ wout[1].cmdname = <<Lower(wcmd)>>
          /\ wargs.kind = "dict" => wout[1].args = wargs.dict[1]
          /\ wargs.kind = "str" => wout[1].args = wargs.text
          /\ wargs.kind = "none" => wout[1].args = None

\* what the code does do: a dict comes back as it went out
SentDictComesBack ==
    (wout # None /\ wargs.kind = "dict" /\ Lower(wcmd) # "error") =>
       wout[1] = Return(<<Lower(wcmd)>>, wargs.dict[1])

\* C14: a getRawResponse does not go on reading once a read has brought no
\* byte (the peer has closed the connection): it has ended, with a frame or
\* with a failure.
C14_Terminates == fempty > 0 => fpc # "recv"

\* C15: getResponse returns a response that is a status only as that status
\* with no payload, and raises a vndbException for an error response whose
\* payload holds neither id nor msg; it ends in no other exception for them.
C15_PayloadLess ==
    (cout # None /\ ~cin.junk) =>
       /\ (cin.payload = None /\ cin.status # "error") =>
             cout[1] = Return(<<cin.status>>, None)
       /\ (cin.status = "error" /\ cin.payload = Some(<<>>)) =>
             cout[1].kind = "raise" /\ cout[1].exc = "vndbException"

\* the items held by a sequence of page objects
RECURSIVE PageItems(_)
PageItems(ps) == IF ps = <<>> THEN 0 ELSE Len(Head(ps).items) + PageItems(Tail(ps))

\* C16: a call with ret_dict=False and a limit num returns page objects that
\* hold no more than num items in all, and asks for a further page only while
\* the pages fetched hold fewer than num items.
C16_RawLimit ==
    (call.num # None /\ ~Flat) =>
       /\ pc = "done" => PageItems(ret) <= call.num[1]
       /\ (pc \in {"loop", "await"} /\ fetched # <<>>) =>
             Len(AllItems(fetched)) < call.num[1]

\* what the code does do with the limit in this mode: it stops by the count of
\* items and keeps the first num page objects
RawLimitCountsPages ==
    (pc = "done" /\ call.num # None /\ ~Flat) =>
       /\ Len(ret) = Min(call.num[1], Len(fetched))
       /\ \A j \in 1..Len(ret) : ret[j] = fetched[j].d

\* C17: every cache entry holds the payload the service wrote in response to
\* the get of the entry's query, whatever the operations did with the results
\* they were handed since.
C17_CacheIntegrity ==
    /\ Len(scache) = Len(swire)
    /\ \A i \in 1..Len(scache) : scache[i].results = swire[i]

\* every thread that is back from a get holds the page of its own query, and
\* every cache entry holds the page of its query
Paired ==
    /\ \A t \in Threads :
          (tpc[t] \in {"idle", "store"} /\ tres[t] # None /\ targs[t] # <<>>) =>
             tres[t][1] = Answer(targs[t])
    /\ \A i \in 1..Len(ccache) : ccache[i].results = Answer(ccache[i].query)

\* C18: when the two threads run every VNDB.get under one lock, each gets the
\* response to the command it sent and every cache entry pairs a query with
\* its response, and at most one command is unanswered at a time.  (Without
\* the lock the pairing fails: UnlockedPaired is violated.)
C18_LockedPairing ==
    uselock =>
       /\ Paired
       /\ Len(csent) + Len(cstream) <= 1
       /\ \A t \in Threads : tpc[t] # "idle" => lock = t

\* under the lock both threads made a round trip for different queries and
\* both are back
C18_Witness ==
    /\ uselock
    /\ \A t \in Threads : tpc[t] = "idle" /\ tres[t] # None
    /\ targs[1] # targs[2]
    /\ Len(ccache) = 2
    /\ Paired

\* the pairing without the lock
UnlockedPaired == ~uselock => Paired

\* an entry younger than cachetime at the present time
Live(i) == now < cache[i].time + cachetime

\* C19: with one caller and a clock that never runs back, no two entries of
\* one query text are younger than cachetime at the same time, and an entry
\* younger than cachetime is the newest of its query text: the first match of
\* a scan is the newest fetch.
C19_OneLiveEntry ==
    \A i \in 1..Len(cache) : \A j \in 1..Len(cache) :
       (i < j /\ cache[i].query = cache[j].query) => ~Live(i)

\* a query text has two entries, the older one expired, the newer one not
C19_Witness ==
    \E i \in 1..Len(cache) : \E j \in 1..Len(cache) :
       /\ i < j
       /\ cache[i].query = cache[j].query
       /\ ~Live(i)
       /\ Live(j)

\* C20 as stated: a call with a limit ends, whatever pages the gets return.
C20_Original == (lpc = "loop") ~> (lpc = "done")

\* C20 (amended): a call with a limit ends unless a page came with more = true
\* and no item; a service that says more = true on every page does not keep it
\* from ending.
C20_Termination == (lpc = "loop") ~> (lpc = "done" \/ lstalled)

\* a call ended by its limit although every page said more = true
C20_Witness ==
    /\ lpc = "done"
    /\ ~lstalled
    /\ llast # None
    /\ llast[1].more
    /\ lcall.num = Some(MaxNum)
    /\ ldict.page > 2

====
